---- MODULE Spec2Model ----
(***************************************************************************)
(* The VoiceToText page of src/app/page.tsx as a state machine.            *)
(*                                                                         *)
(* The React state (useState), the refs (useRef), the browser objects the  *)
(* handlers create (MediaStream, MediaRecorder, Blob, object URL) and the  *)
(* asynchronous work in flight (getUserMedia promises, MediaRecorder       *)
(* events, fetch promises, play promises) are the variables.  Each handler *)
(* and each callback is one action.  A re-render is taken together with    *)
(* the handler that sets the state; the one part of a commit that is a     *)
(* step of its own is the useEffect cleanup of lines 25-31, which runs     *)
(* after the handler that replaced audioUrl has returned.  The two events  *)
(* of a stopped recorder are steps of one task: nothing else runs between  *)
(* its ondataavailable and its onstop.                                     *)
(***************************************************************************)
EXTENDS Integers, Sequences, FiniteSets, TLC

\* ---------------------------------------------------------------- bounds
MaxRecorders == 2    \* MediaRecorder objects created or asked for in one behaviour
MaxInFlight  == 2    \* fetch calls awaiting their response
MaxPlays     == 1    \* play() promises awaiting settlement

\* ------------------------------------------------------ program constants
\* start() of line 49 is called without a timeslice, so a recorder delivers its
\* data in one dataavailable event, when it is stopped.
DataEventsPerStop == 1

\* ---------------------------------------------------------------- inputs
Keys  == {"", "k1"}                    \* what the user types into the key field
Texts == {"hello world", "second"}     \* the text field of a 2xx response
DenyKinds == {"NotAllowedError", "NotReadableError"}   \* getUserMedia rejections
FailKinds == {"http", "network", "parse"}              \* failing fetch outcomes

\* ---------------------------------------------------------------- values
NoError      == "null"
MicError     == "Error accessing microphone. Please check your permissions."
PlayError    == "Error playing audio. Please try again."
NoAudioError == "No audio recorded. Please record audio first."
NoKeyError   == "Please enter your Groq API key."
TranscribeError == "Error transcribing audio. Please check your API key and try again."

NoBlob == [id |-> 0, parts |-> <<>>]   \* audioBlob = null

VARIABLES
    isRecording,    \* useState<boolean>(false)
    audioBlob,      \* useState<Blob | null>(null)
    audioUrl,       \* useState<string | null>(null); 0 is null, else an index of urls
    transcription,  \* useState<string>('')
    error,          \* useState<string | null>(null)
    apiKey,         \* useState<string>('')
    mediaRecorder,  \* useRef<MediaRecorder | null>; 0 is null, else an index of recorders
    audioChunks,    \* useRef<AudioChunk[]>([])
    recorders,      \* the MediaRecorder objects created so far
    streams,        \* the MediaStream objects getUserMedia has returned
    urls,           \* the object URLs created so far
    pendingStarts,  \* startRecording invocations suspended at the await of line 35
    requests,       \* fetch calls of line 91 not yet settled, in issue order
    pendingPlays,   \* play() promises of line 67 not yet settled
    effect,         \* the useEffect cleanup a commit still has to run
    ev              \* the handler or callback that ran last

vars == <<isRecording, audioBlob, audioUrl, transcription, error, apiKey,
          mediaRecorder, audioChunks, recorders, streams, urls,
          pendingStarts, requests, pendingPlays, effect, ev>>

reactState == <<isRecording, audioBlob, audioUrl, transcription, error, apiKey>>
recState   == <<mediaRecorder, audioChunks, recorders, streams>>

Init ==
    /\ isRecording = FALSE
    /\ audioBlob = NoBlob
    /\ audioUrl = 0
    /\ transcription = ""
    /\ error = NoError
    /\ apiKey = ""
    /\ mediaRecorder = 0
    /\ audioChunks = <<>>
    /\ recorders = <<>>
    /\ streams = <<>>
    /\ urls = <<>>
    /\ pendingStarts = 0
    /\ requests = <<>>
    /\ pendingPlays = 0
    /\ effect = [pending |-> FALSE, url |-> 0]
    /\ ev = [op |-> "init", arg |-> ""]

\* No commit is in progress: handlers and callbacks run between commits.
Committed == ~effect.pending

\* The recorders in the middle of the task that delivers their events.  A
\* stopped MediaRecorder fires its dataavailable and its stop event in one
\* task, the handlers of lines 37-41 and 42-48 running back to back.
Dispatching ==
    {r \in 1..Len(recorders) :
        recorders[r].flushing /\ recorders[r].nData = DataEventsPerStop}

\* No task is running: the next handler or callback may start.
Quiescent == Committed /\ Dispatching = {}

Event(op, arg) == [op |-> op, arg |-> arg]

\* The settling of a fetch: the response's text and the request it answers.
Answered(op, arg, req) == [op |-> op, arg |-> arg, req |-> req]

RemoveAt(s, i) == [j \in 1..(Len(s) - 1) |-> IF j < i THEN s[j] ELSE s[j + 1]]

\* --------------------------------------------------------- the view
StartEnabled == ~isRecording          \* <Button onClick={startRecording} disabled={isRecording}>
StopEnabled == isRecording            \* <Button onClick={stopRecording} disabled={!isRecording}>
PlaybackShown == audioUrl # 0         \* {audioUrl && ( <audio .../> <Button onClick={transcribeAudio}> )}

\* --------------------------------------------------------- recording
\* startRecording up to its await: getUserMedia is requested (line 35).
StartRecording ==
    /\ Quiescent
    /\ pendingStarts + Len(recorders) < MaxRecorders
    /\ pendingStarts' = pendingStarts + 1
    /\ ev' = Event("startRecording", "")
    /\ UNCHANGED <<reactState, recState, urls, requests, pendingPlays, effect>>

\* The recorder of line 36, recording after start() of line 49.  It delivers
\* data only once stopped: start() is called without a timeslice.  sent is the
\* non-empty segments it has delivered, blob the artifact its stop event made.
NewRecorder(stream) ==
    [state |-> "recording", flushing |-> FALSE, nData |-> 0, stream |-> stream,
     sent |-> <<>>, blob |-> 0]

\* A start that leaves the error banner up.
StartGrantedKeepsError ==
    /\ Quiescent
    /\ pendingStarts > 0
    /\ pendingStarts' = pendingStarts - 1
    /\ streams' = Append(streams, "live")
    /\ recorders' = Append(recorders, NewRecorder(Len(streams) + 1))
    /\ mediaRecorder' = Len(recorders) + 1
    /\ isRecording' = TRUE
    /\ ev' = Event("startGranted", "")
    /\ UNCHANGED <<audioBlob, audioUrl, transcription, error, apiKey, audioChunks,
                   urls, requests, pendingPlays, effect>>

\* getUserMedia resolves: lines 36-51.
StartGranted ==
    /\ Quiescent
    /\ pendingStarts > 0
    /\ pendingStarts' = pendingStarts - 1
    /\ streams' = Append(streams, "live")
    /\ recorders' = Append(recorders, NewRecorder(Len(streams) + 1))
    /\ mediaRecorder' = Len(recorders) + 1
    /\ isRecording' = TRUE
    /\ error' = NoError
    /\ ev' = Event("startGranted", "")
    /\ UNCHANGED <<audioBlob, audioUrl, transcription, apiKey, audioChunks,
                   urls, requests, pendingPlays, effect>>

\* A catch that also resets the recording flag.
StartDeniedResetsRecording(kind) ==
    /\ Quiescent
    /\ pendingStarts > 0
    /\ pendingStarts' = pendingStarts - 1
    /\ error' = MicError
    /\ isRecording' = FALSE
    /\ ev' = Event("startDenied", "")
    /\ UNCHANGED <<audioBlob, audioUrl, transcription, apiKey,
                   recState, urls, requests, pendingPlays, effect>>

\* getUserMedia rejects (permission denied, no or unreadable device): lines 52-55.
StartDenied(kind) ==
    /\ Quiescent
    /\ pendingStarts > 0
    /\ pendingStarts' = pendingStarts - 1
    /\ error' = MicError
    /\ ev' = Event("startDenied", "")
    /\ UNCHANGED <<isRecording, audioBlob, audioUrl, transcription, apiKey,
                   recState, urls, requests, pendingPlays, effect>>

\* A stop() after which the recorder delivers nothing.
RecorderStopSilently(r) ==
    IF recorders[r].state = "recording"
    THEN [recorders EXCEPT ![r].state = "inactive"]
    ELSE recorders

\* MediaRecorder.stop(): the recorder is inactive at once, its last data and
\* its stop event are delivered later.  On an inactive recorder it does nothing.
RecorderStop(r) ==
    IF recorders[r].state = "recording"
    THEN [recorders EXCEPT ![r].state = "inactive", ![r].flushing = TRUE]
    ELSE recorders

\* A stopRecording that checks only the recorder reference and builds the
\* artifact itself instead of leaving it to onstop.
StopRecordingUnguarded ==
    /\ Quiescent
    /\ IF mediaRecorder # 0
       THEN /\ recorders' = RecorderStop(mediaRecorder)
            /\ isRecording' = FALSE
            /\ audioBlob' = [id |-> Len(urls) + 1, parts |-> audioChunks]
       ELSE UNCHANGED <<recorders, isRecording, audioBlob>>
    /\ ev' = Event("stopRecording", "")
    /\ UNCHANGED <<audioUrl, transcription, error, apiKey,
                   mediaRecorder, audioChunks, streams, urls,
                   pendingStarts, requests, pendingPlays, effect>>

\* stopRecording: lines 58-63.
StopRecording ==
    /\ Quiescent
    /\ IF mediaRecorder # 0 /\ isRecording
       THEN /\ recorders' = RecorderStop(mediaRecorder)
            /\ isRecording' = FALSE
       ELSE UNCHANGED <<recorders, isRecording>>
    /\ ev' = Event("stopRecording", "")
    /\ UNCHANGED <<audioBlob, audioUrl, transcription, error, apiKey,
                   mediaRecorder, audioChunks, streams, urls,
                   pendingStarts, requests, pendingPlays, effect>>

\* The k-th segment recorder r delivers.
Segment(r, k) == <<r, k>>

\* An ondataavailable whose size test is inverted: it keeps only empty segments.
DataAvailableDropsData(r, nonEmpty) ==
    /\ Quiescent
    /\ recorders[r].flushing
    /\ recorders[r].nData < DataEventsPerStop
    /\ recorders' = [recorders EXCEPT
                        ![r].nData = @ + 1,
                        ![r].sent = IF nonEmpty
                                    THEN Append(@, Segment(r, recorders[r].nData + 1))
                                    ELSE @]
    /\ audioChunks' = audioChunks
    /\ ev' = Event("dataavailable", "")
    /\ UNCHANGED <<reactState, mediaRecorder, streams, urls,
                   pendingStarts, requests, pendingPlays, effect>>

\* ondataavailable of recorder r: lines 37-41.  An empty segment is dropped.
DataAvailable(r, nonEmpty) ==
    /\ Quiescent
    /\ recorders[r].flushing
    /\ recorders[r].nData < DataEventsPerStop
    /\ recorders' = [recorders EXCEPT
                        ![r].nData = @ + 1,
                        ![r].sent = IF nonEmpty
                                    THEN Append(@, Segment(r, recorders[r].nData + 1))
                                    ELSE @]
    /\ audioChunks' = IF nonEmpty
                      THEN Append(audioChunks, Segment(r, recorders[r].nData + 1))
                      ELSE audioChunks
    /\ ev' = Event("dataavailable", "")
    /\ UNCHANGED <<reactState, mediaRecorder, streams, urls,
                   pendingStarts, requests, pendingPlays, effect>>

\* new Blob(audioChunks.current, ...) of line 43; the id is the blob's identity.
NewBlob(chunks) == [id |-> Len(urls) + 1, parts |-> chunks]

\* An onstop that does not empty the buffer.
StopEventKeepsBuffer(r) ==
    /\ Committed
    /\ recorders[r].flushing
    /\ recorders[r].nData = DataEventsPerStop
    /\ recorders' = [recorders EXCEPT ![r].flushing = FALSE,
                                      ![r].blob = NewBlob(audioChunks).id]
    /\ audioBlob' = NewBlob(audioChunks)
    /\ urls' = Append(urls, [blob |-> NewBlob(audioChunks).id, revoked |-> FALSE])
    /\ audioUrl' = Len(urls) + 1
    /\ effect' = [pending |-> TRUE, url |-> audioUrl]
    /\ ev' = Event("onstop", "")
    /\ UNCHANGED <<isRecording, transcription, error, apiKey, mediaRecorder,
                   audioChunks, streams, pendingStarts, requests, pendingPlays>>

\* An onstop that makes the playback reference but does not store the artifact.
StopEventKeepsBlob(r) ==
    /\ Committed
    /\ recorders[r].flushing
    /\ recorders[r].nData = DataEventsPerStop
    /\ recorders' = [recorders EXCEPT ![r].flushing = FALSE,
                                      ![r].blob = NewBlob(audioChunks).id]
    /\ urls' = Append(urls, [blob |-> NewBlob(audioChunks).id, revoked |-> FALSE])
    /\ audioUrl' = Len(urls) + 1
    /\ audioChunks' = <<>>
    /\ effect' = [pending |-> TRUE, url |-> audioUrl]
    /\ ev' = Event("onstop", "")
    /\ UNCHANGED <<isRecording, audioBlob, transcription, error, apiKey,
                   mediaRecorder, streams, pendingStarts, requests, pendingPlays>>

\* onstop of recorder r: lines 42-48, and the re-render that setAudioUrl
\* causes, whose commit has the cleanup of the previous audioUrl to run.
StopEvent(r) ==
    /\ Committed
    /\ recorders[r].flushing
    /\ recorders[r].nData = DataEventsPerStop
    /\ recorders' = [recorders EXCEPT ![r].flushing = FALSE,
                                      ![r].blob = NewBlob(audioChunks).id]
    /\ audioBlob' = NewBlob(audioChunks)
    /\ urls' = Append(urls, [blob |-> NewBlob(audioChunks).id, revoked |-> FALSE])
    /\ audioUrl' = Len(urls) + 1
    /\ audioChunks' = <<>>
    /\ effect' = [pending |-> TRUE, url |-> audioUrl]
    /\ ev' = Event("onstop", "")
    /\ UNCHANGED <<isRecording, transcription, error, apiKey, mediaRecorder,
                   streams, pendingStarts, requests, pendingPlays>>

\* A cleanup that forgets the URL it closes over.
EffectCleanupNoRevoke ==
    /\ effect.pending
    /\ effect' = [pending |-> FALSE, url |-> 0]
    /\ ev' = Event("cleanup", "")
    /\ UNCHANGED <<reactState, recState, urls, pendingStarts, requests, pendingPlays>>

\* The cleanup of useEffect(..., [audioUrl]): lines 25-31.  It closes over the
\* audioUrl of the render before the change.
EffectCleanup ==
    /\ effect.pending
    /\ urls' = IF effect.url # 0
               THEN [urls EXCEPT ![effect.url].revoked = TRUE]
               ELSE urls
    /\ effect' = [pending |-> FALSE, url |-> 0]
    /\ ev' = Event("cleanup", "")
    /\ UNCHANGED <<reactState, recState, pendingStarts, requests, pendingPlays>>

\* --------------------------------------------------------- playback
\* playAudio up to the promise of play(): lines 65-67.  audioElement.current
\* is set exactly while the <audio> element is rendered.
PlayAudio ==
    /\ Quiescent
    /\ IF PlaybackShown
       THEN /\ pendingPlays < MaxPlays
            /\ pendingPlays' = pendingPlays + 1
       ELSE UNCHANGED pendingPlays
    /\ ev' = Event("playAudio", "")
    /\ UNCHANGED <<reactState, recState, urls, pendingStarts, requests, effect>>

\* play() resolves: nothing is attached to the fulfilled promise.
PlayResolved ==
    /\ Quiescent
    /\ pendingPlays > 0
    /\ pendingPlays' = pendingPlays - 1
    /\ ev' = Event("playResolved", "")
    /\ UNCHANGED <<reactState, recState, urls, pendingStarts, requests, effect>>

\* play() rejects: lines 67-70.
PlayRejected ==
    /\ Quiescent
    /\ pendingPlays > 0
    /\ pendingPlays' = pendingPlays - 1
    /\ error' = PlayError
    /\ ev' = Event("playRejected", "")
    /\ UNCHANGED <<isRecording, audioBlob, audioUrl, transcription, apiKey,
                   recState, urls, pendingStarts, requests, effect>>

\* --------------------------------------------------------- transcription
\* onChange of the key field: line 125.
SetApiKey(k) ==
    /\ Quiescent
    /\ k # apiKey
    /\ apiKey' = k
    /\ ev' = Event("setApiKey", "")
    /\ UNCHANGED <<isRecording, audioBlob, audioUrl, transcription, error,
                   recState, urls, pendingStarts, requests, pendingPlays, effect>>

\* The request of lines 84-97: the artifact as the file part, the key as the
\* bearer token.
NewRequest == [blob |-> audioBlob, key |-> apiKey]

\* A transcribeAudio without the check of the key.
TranscribeAudioNoKeyCheck ==
    /\ Quiescent
    /\ IF audioBlob = NoBlob
       THEN /\ error' = NoAudioError
            /\ UNCHANGED requests
       ELSE /\ Len(requests) < MaxInFlight
            /\ requests' = Append(requests, NewRequest)
            /\ UNCHANGED error
    /\ ev' = Event("transcribeAudio", "")
    /\ UNCHANGED <<isRecording, audioBlob, audioUrl, transcription, apiKey,
                   recState, urls, pendingStarts, pendingPlays, effect>>

\* A transcribeAudio that checks the key before the artifact.
TranscribeAudioKeyFirst ==
    /\ Quiescent
    /\ IF apiKey = ""
       THEN /\ error' = NoKeyError
            /\ UNCHANGED requests
       ELSE IF audioBlob = NoBlob
       THEN /\ error' = NoAudioError
            /\ UNCHANGED requests
       ELSE /\ Len(requests) < MaxInFlight
            /\ requests' = Append(requests, NewRequest)
            /\ UNCHANGED error
    /\ ev' = Event("transcribeAudio", "")
    /\ UNCHANGED <<isRecording, audioBlob, audioUrl, transcription, apiKey,
                   recState, urls, pendingStarts, pendingPlays, effect>>

\* transcribeAudio up to its await: lines 74-97.
TranscribeAudio ==
    /\ Quiescent
    /\ IF audioBlob = NoBlob
       THEN /\ error' = NoAudioError
            /\ UNCHANGED requests
       ELSE IF apiKey = ""
       THEN /\ error' = NoKeyError
            /\ UNCHANGED requests
       ELSE /\ Len(requests) < MaxInFlight
            /\ requests' = Append(requests, NewRequest)
            /\ UNCHANGED error
    /\ ev' = Event("transcribeAudio", "")
    /\ UNCHANGED <<isRecording, audioBlob, audioUrl, transcription, apiKey,
                   recState, urls, pendingStarts, pendingPlays, effect>>

\* A success path that leaves the error banner up.
TranscribeOkKeepsError(i, t) ==
    /\ Quiescent
    /\ i \in 1..Len(requests)
    /\ requests' = RemoveAt(requests, i)
    /\ transcription' = t
    /\ ev' = Answered("transcribeOk", t, requests[i])
    /\ UNCHANGED <<isRecording, audioBlob, audioUrl, error, apiKey,
                   recState, urls, pendingStarts, pendingPlays, effect>>

\* A success path that drops the response to a request made for an artifact
\* that is no longer the current one.
TranscribeOkIgnoresStale(i, t) ==
    /\ Quiescent
    /\ i \in 1..Len(requests)
    /\ requests' = RemoveAt(requests, i)
    /\ IF requests[i].blob = audioBlob
       THEN transcription' = t /\ error' = NoError
       ELSE UNCHANGED <<transcription, error>>
    /\ ev' = Answered("transcribeOk", t, requests[i])
    /\ UNCHANGED <<isRecording, audioBlob, audioUrl, apiKey,
                   recState, urls, pendingStarts, pendingPlays, effect>>

\* The i-th request in flight is answered 2xx with {text: t}: lines 103-105.
TranscribeOk(i, t) ==
    /\ Quiescent
    /\ i \in 1..Len(requests)
    /\ requests' = RemoveAt(requests, i)
    /\ transcription' = t
    /\ error' = NoError
    /\ ev' = Answered("transcribeOk", t, requests[i])
    /\ UNCHANGED <<isRecording, audioBlob, audioUrl, apiKey,
                   recState, urls, pendingStarts, pendingPlays, effect>>

\* A failure path that sends the request again.
TranscribeFailRetries(i, kind) ==
    /\ Quiescent
    /\ i \in 1..Len(requests)
    /\ requests' = Append(RemoveAt(requests, i), requests[i])
    /\ error' = TranscribeError
    /\ ev' = Answered("transcribeFail", "", requests[i])
    /\ UNCHANGED <<isRecording, audioBlob, audioUrl, transcription, apiKey,
                   recState, urls, pendingStarts, pendingPlays, effect>>

\* The i-th request in flight fails: a non-2xx status (lines 99-101), a
\* rejected fetch, or a body that does not parse (line 103); all reach the
\* catch of lines 106-109.
TranscribeFail(i, kind) ==
    /\ Quiescent
    /\ i \in 1..Len(requests)
    /\ requests' = RemoveAt(requests, i)
    /\ error' = TranscribeError
    /\ ev' = Answered("transcribeFail", "", requests[i])
    /\ UNCHANGED <<isRecording, audioBlob, audioUrl, transcription, apiKey,
                   recState, urls, pendingStarts, pendingPlays, effect>>

\* --------------------------------------------------------- the page
\* What the user can do: a control calls its handler only while it is
\* rendered and enabled (lines 129-145).
ClickStart == StartEnabled /\ StartRecording
ClickStop == StopEnabled /\ StopRecording
ClickTranscribe == PlaybackShown /\ TranscribeAudio

\* What the browser delivers back to the page.
Callbacks ==
    \/ StartGranted
    \/ \E kind \in DenyKinds : StartDenied(kind)
    \/ \E r \in 1..Len(recorders), nonEmpty \in BOOLEAN : DataAvailable(r, nonEmpty)
    \/ \E r \in 1..Len(recorders) : StopEvent(r)
    \/ EffectCleanup
    \/ \E i \in 1..MaxInFlight, t \in Texts : TranscribeOk(i, t)
    \/ \E i \in 1..MaxInFlight, kind \in FailKinds : TranscribeFail(i, kind)

Next ==
    \/ ClickStart
    \/ ClickStop
    \/ ClickTranscribe
    \/ \E k \in Keys : SetApiKey(k)
    \/ Callbacks

Spec == Init /\ [][Next]_vars

\* The handlers called directly, whatever the controls show: the contract of
\* each handler, as a test that calls it would exercise it.
NextDirect ==
    \/ StartRecording
    \/ StopRecording
    \/ TranscribeAudio
    \/ PlayAudio
    \/ PlayResolved
    \/ PlayRejected
    \/ \E k \in Keys : SetApiKey(k)
    \/ Callbacks

SpecDirect == Init /\ [][NextDirect]_vars

\* The device's delivery of the events of a stopped recorder r: the task the
\* recorder queued at stop() runs ondataavailable and then onstop.
StopDelivery(r) ==
    /\ r \in 1..Len(recorders)
    /\ \/ \E nonEmpty \in BOOLEAN : DataAvailable(r, nonEmpty)
       \/ StopEvent(r)

\* The page under a device that delivers the events of every stopped recorder
\* and a renderer that commits every render.  Nothing is assumed of the user
\* or of the network.
FairSpec ==
    /\ Spec
    /\ \A r \in 1..MaxRecorders : WF_vars(StopDelivery(r))
    /\ WF_vars(EffectCleanup)

\* ----------------------------------------------------------- derived
\* The recorders that are capturing: each has its ondataavailable wired to
\* audioChunks and will append to it.
Capturing == {r \in 1..Len(recorders) : recorders[r].state = "recording"}

\* The recorders whose dataavailable or stop event is still to be delivered.
Flushing == {r \in 1..Len(recorders) : recorders[r].flushing}

\* The object URLs that have not been revoked.
Unrevoked == {u \in 1..Len(urls) : ~urls[u].revoked}

\* The streams whose tracks have not been stopped.
LiveStreams == {n \in 1..Len(streams) : streams[n] = "live"}

\* A step that issues a network request.
IssuesRequest == Len(requests') > Len(requests)

\* ------------------------------------------------------------- claims

\* C1 as stated: a step issues a transcription request only when
\* RecordingState = Idle, an AudioArtifact exists and Credential is non-empty.
C1_RequestOnlyWhenIdle ==
    [][IssuesRequest => ~isRecording /\ audioBlob # NoBlob /\ apiKey # ""]_vars

\* C2 as stated: whenever Credential is empty, transcribeAudio issues no
\* request and sets ErrorState to the missing-credential message.
C2_EmptyKeyAlwaysKeyMessage ==
    [][ev'.op = "transcribeAudio" /\ apiKey = ""
         => ~IssuesRequest /\ requests' = requests /\ error' = NoKeyError]_vars

\* C2 as amended: whenever Credential is empty and an AudioArtifact exists,
\* transcribeAudio issues no request and sets ErrorState to the
\* missing-credential message.
C2_EmptyKeyWithAudio ==
    [][ev'.op = "transcribeAudio" /\ apiKey = "" /\ audioBlob # NoBlob
         => ~IssuesRequest /\ requests' = requests /\ error' = NoKeyError]_vars

\* transcribeAudio has just run with an artifact and an empty key.
C2_Witness ==
    /\ ev.op = "transcribeAudio"
    /\ apiKey = ""
    /\ audioBlob # NoBlob
    /\ error = NoKeyError

\* C3: whenever no AudioArtifact exists, transcribeAudio issues no request and
\* sets ErrorState to the missing-audio message, whatever the Credential is.
C3_NoAudioNoRequest ==
    [][ev'.op = "transcribeAudio" /\ audioBlob = NoBlob
         => ~IssuesRequest /\ requests' = requests /\ error' = NoAudioError]_vars

\* transcribeAudio has just run without an artifact, the key being set.
C3_Witness ==
    /\ ev.op = "transcribeAudio"
    /\ audioBlob = NoBlob
    /\ apiKey # ""
    /\ error = NoAudioError
    /\ requests = <<>>

\* C4: a failed request leaves TranscriptResult as it was, sets ErrorState to
\* the generic transcription-failure message and issues nothing (the request
\* is gone, none is added); requests are only ever issued by transcribeAudio,
\* one per invocation.
C4_FailureNoRetry ==
    [][/\ ev'.op = "transcribeFail"
          => /\ transcription' = transcription
             /\ error' = TranscribeError
             /\ Len(requests') = Len(requests) - 1
       /\ IssuesRequest
          => /\ ev'.op = "transcribeAudio"
             /\ Len(requests') = Len(requests) + 1]_vars

\* A request has just failed while an earlier transcript is displayed.
C4_Witness ==
    /\ ev.op = "transcribeFail"
    /\ error = TranscribeError
    /\ transcription # ""

\* C5: a successful response carrying text t makes TranscriptResult exactly t
\* and clears ErrorState, whatever the two were before.
C5_SuccessSetsTranscript ==
    [][ev'.op = "transcribeOk"
         => /\ transcription' = ev'.arg
            /\ ev'.arg \in Texts
            /\ error' = NoError]_vars

\* A response has just replaced a transcript while another request is in flight.
C5_Witness ==
    /\ ev.op = "transcribeOk"
    /\ transcription = "second"
    /\ error = NoError
    /\ requests # <<>>

C7_StopWhileIdleNoOp ==
    [][ev'.op = "stopRecording" /\ ~isRecording
         => UNCHANGED <<isRecording, audioBlob, audioUrl, urls, recorders,
                        mediaRecorder, audioChunks, streams>>]_vars

\* stopRecording has just run on a page that holds a recorder and an
\* artifact and in which no stop is being delivered: it was called while Idle.
C7_Witness ==
    /\ ev.op = "stopRecording"
    /\ ~isRecording
    /\ mediaRecorder # 0
    /\ audioBlob # NoBlob
    /\ Flushing = {}

\* C8 as stated: a start that runs while RecordingState = Recording leaves
\* the segment buffer as it is and adds no second producer to it.
C8_StartWhileRecording ==
    [][isRecording /\ ev'.op \in {"startRecording", "startGranted"}
         => /\ audioChunks' = audioChunks
            /\ Cardinality(Capturing') <= 1]_vars

\* C9 as stated: a granted start takes RecordingState from Idle to Recording
\* and clears ErrorState; a denied start leaves RecordingState Idle, no
\* recorder active, and ErrorState the microphone-access message.
C9_StartOutcomes ==
    [][/\ ev'.op = "startGranted"
          => ~isRecording /\ isRecording' /\ error' = NoError
       /\ ev'.op = "startDenied"
          => ~isRecording' /\ Capturing' = {} /\ error' = MicError]_vars

\* C10 as stated: once RecordingState is Idle again and every stop event has
\* been handled, no acquired device stream is still held.
C10_StreamReleasedAfterStop ==
    (~isRecording /\ Capturing = {} /\ Flushing = {} /\ Committed)
        => LiveStreams = {}

\* The recorders whose stop event a step handles.
Finalized == Flushing \ Flushing'

\* C11: a dataavailable event appends its segment at the end of the buffer if
\* it is non-empty and leaves the buffer alone if it is empty; the artifact
\* changes only in a stop event, which a recorder gets after its last
\* dataavailable event; the artifact is then the buffer, in order, and the
\* buffer is empty afterwards.
C11_OrderedAndFinalizedAtStop ==
    [][/\ ev'.op = "dataavailable"
          => \/ audioChunks' = audioChunks
             \/ /\ Len(audioChunks') = Len(audioChunks) + 1
                /\ SubSeq(audioChunks', 1, Len(audioChunks)) = audioChunks
                /\ \E r \in 1..Len(recorders) :
                      /\ recorders'[r].nData = recorders[r].nData + 1
                      /\ audioChunks'[Len(audioChunks')]
                            = Segment(r, recorders'[r].nData)
       /\ ev'.op # "dataavailable" /\ ev'.op # "onstop"
          => audioChunks' = audioChunks
       /\ audioBlob' # audioBlob
          => /\ ev'.op = "onstop"
             /\ Finalized # {}
             /\ \A r \in Finalized : recorders[r].nData = DataEventsPerStop
             /\ audioBlob'.parts = audioChunks
       /\ ev'.op = "onstop" => audioChunks' = <<>> /\ audioBlob' # audioBlob]_vars

\* A stop event has just made an artifact of a non-empty segment.
C11_Witness ==
    /\ ev.op = "onstop"
    /\ Len(audioBlob.parts) = 1
    /\ audioChunks = <<>>
    /\ audioBlob.id = 2

\* The message a failing step sets: "none" for a step that is no failure.
FailureMessage ==
    CASE ev'.op = "startDenied" -> MicError
      [] ev'.op = "playRejected" -> PlayError
      [] ev'.op = "transcribeFail" -> TranscribeError
      [] ev'.op = "transcribeAudio" /\ audioBlob = NoBlob -> NoAudioError
      [] ev'.op = "transcribeAudio" /\ audioBlob # NoBlob /\ apiKey = "" -> NoKeyError
      [] OTHER -> "none"

\* C12: every failing step (device access, playback, missing precondition,
\* transcription) sets ErrorState to its one message, whatever it was, and
\* leaves RecordingState, the artifact, its reference, Credential and
\* TranscriptResult as they were.
C12_ErrorsChangeOnlyErrorState ==
    [][FailureMessage # "none"
         => /\ error' = FailureMessage
            /\ UNCHANGED <<isRecording, audioBlob, audioUrl, urls, apiKey,
                           transcription>>]_vars

\* A playback failure has just set its message, on a page that is recording
\* and holds an artifact, a key and a transcript.
C12_Witness ==
    /\ ev.op = "playRejected"
    /\ error = PlayError
    /\ isRecording
    /\ audioBlob # NoBlob
    /\ apiKey # ""
    /\ transcription # ""

\* C13 as stated: after a successful start, a stop event that finalized the
\* artifact, a successful playback or a successful transcription, ErrorState
\* is empty.
C13_SuccessClearsError ==
    ev.op \in {"startGranted", "onstop", "playResolved", "transcribeOk"}
        => error = NoError

\* C13 as amended: a successful start and a successful transcription clear
\* ErrorState; stopRecording, the stop event that finalizes the artifact and a
\* successful playback leave ErrorState as it was.
C13_StartAndTranscriptionClearError ==
    [][/\ ev'.op \in {"startGranted", "transcribeOk"} => error' = NoError
       /\ ev'.op \in {"stopRecording", "dataavailable", "onstop", "cleanup",
                      "playAudio", "playResolved"}
          => error' = error]_vars

\* A playback has just succeeded and the earlier failure is still displayed.
C13_Witness ==
    /\ ev.op = "playResolved"
    /\ error = TranscribeError

\* C14 as stated: exactly one of the start and stop controls is enabled, start
\* iff RecordingState = Idle and stop iff RecordingState = Recording, and
\* RecordingState = Recording iff a recorder is capturing.
C14_ControlsFollowRecorder ==
    /\ StartEnabled # StopEnabled
    /\ StartEnabled <=> ~isRecording
    /\ StopEnabled <=> isRecording
    /\ isRecording <=> Capturing # {}

\* C15: the playback widget and the transcribe control are shown iff an
\* artifact exists: the playback reference is set iff the artifact is, and it
\* is the unrevoked reference made from the current artifact.
C15_PlaybackShownIffArtifact ==
    /\ PlaybackShown <=> audioBlob # NoBlob
    /\ (audioUrl # 0) <=> (audioBlob # NoBlob)
    /\ audioUrl # 0 => /\ audioUrl \in 1..Len(urls)
                       /\ urls[audioUrl].blob = audioBlob.id
                       /\ ~urls[audioUrl].revoked

\* The second artifact is current, shown through the second reference.
C15_Witness ==
    /\ PlaybackShown
    /\ Committed
    /\ audioBlob.id = 2
    /\ audioUrl = 2
    /\ urls[1].revoked

\* C16 as stated: at most one recorder is capturing, and a capturing recorder
\* is the one the recorder reference holds.
C16_OneRecorderInReference ==
    /\ Cardinality(Capturing) <= 1
    /\ Capturing \subseteq {mediaRecorder}

\* C17: the artifact a recorder's stop event makes holds exactly the
\* non-empty segments that recorder delivered, in order: none of another
\* recorder, none lost; and a segment leaves the buffer only in the stop event
\* of the recorder that delivered it.
C17_ArtifactOfItsOwnRecorder ==
    [][/\ ev'.op = "onstop"
          => /\ Cardinality(Finalized) = 1
             /\ \A r \in Finalized : /\ audioBlob'.parts = recorders[r].sent
                                    /\ recorders'[r].blob = audioBlob'.id
       /\ \A i \in 1..Len(audioChunks) :
             (\A j \in 1..Len(audioChunks') : audioChunks'[j] # audioChunks[i])
                => audioChunks[i][1] \in Finalized]_vars

\* The second recorder's artifact has just been made of its own segment, the
\* second start having been granted before the first recorder's events came.
C17_Witness ==
    /\ ev.op = "onstop"
    /\ Len(recorders) = 2
    /\ recorders[2].blob = 1
    /\ audioBlob.id = 1
    /\ audioBlob.parts = <<Segment(2, 1)>>
    /\ recorders[1].flushing

\* C18: a request is issued with the artifact and the key current at the
\* call, and keeps them while in flight, whatever is recorded or typed
\* meanwhile; a response, in whatever order it arrives, is applied without a
\* look at the current artifact or at the other requests in flight, so
\* TranscriptResult and ErrorState are those of the last response handled.
C18_ResponsesAppliedInArrivalOrder ==
    [][/\ IssuesRequest
          => requests' = Append(requests, [blob |-> audioBlob, key |-> apiKey])
       /\ ev'.op \notin {"transcribeAudio", "transcribeOk", "transcribeFail"}
          => requests' = requests
       /\ ev'.op \in {"transcribeOk", "transcribeFail"}
          => \E i \in 1..Len(requests) : /\ ev'.req = requests[i]
                                         /\ requests' = RemoveAt(requests, i)
       /\ ev'.op = "transcribeOk"
          => transcription' = ev'.arg /\ error' = NoError
       /\ ev'.op = "transcribeFail"
          => transcription' = transcription /\ error' = TranscribeError]_vars

\* The response to a request made for the first artifact, with the second
\* artifact current and the request made for it still in flight, has just
\* set the transcript.
C18_Witness ==
    /\ ev.op = "transcribeOk"
    /\ ev.req.blob.id = 1
    /\ audioBlob.id = 2
    /\ transcription = ev.arg
    /\ error = NoError
    /\ Len(requests) = 1
    /\ requests[1].blob = audioBlob

\* The recorder r has been stopped by stopRecording and its stop event is
\* still to come.
StoppedByUser(r) ==
    /\ r \in 1..Len(recorders)
    /\ recorders[r].flushing

\* The artifact finalized from recorder r is the current one and has a
\* playback reference that has not been revoked.
ArtifactCurrent(r) ==
    /\ r \in 1..Len(recorders)
    /\ recorders[r].blob # 0
    /\ audioBlob.id = recorders[r].blob
    /\ audioUrl # 0
    /\ urls[audioUrl].blob = audioBlob.id
    /\ ~urls[audioUrl].revoked

\* C19 as stated: a stopRecording while Recording is eventually followed by
\* a state in which RecordingState is Idle and the artifact finalized from
\* that recording is current with a playback reference.
C19_StopLeadsToIdleWithArtifact ==
    \A r \in 1..MaxRecorders :
        StoppedByUser(r) ~> (~isRecording /\ ArtifactCurrent(r))

\* C19: a stopRecording while Recording makes RecordingState Idle at the
\* call, with the recorder stopped and no artifact made from it yet, and is
\* eventually followed by a state in which the artifact finalized from that
\* recording is current with a playback reference; RecordingState is Idle in
\* that state unless another recording has started since the call.
C19_StopLeadsToArtifact ==
    /\ [][ev'.op = "stopRecording" /\ isRecording
          => /\ ~isRecording'
             /\ audioBlob' = audioBlob
             /\ audioUrl' = audioUrl
             /\ mediaRecorder \in Flushing' \ Flushing
             /\ recorders'[mediaRecorder].blob = 0]_vars
    /\ \A r \in 1..MaxRecorders :
          StoppedByUser(r)
             ~> (ArtifactCurrent(r) /\ (isRecording => mediaRecorder # r))

\* The artifact of the first recording has just been finalized and is
\* current, while the second recording, started before the first one's stop
\* event came, is running.
C19_Witness ==
    /\ ev.op = "onstop"
    /\ ArtifactCurrent(1)
    /\ isRecording
    /\ mediaRecorder = 2
    /\ recorders[2].state = "recording"

====
